---- MODULE Spec2Model ----
(***************************************************************************)
(* Wallet ledger, order checkout, settlement, roles and seller             *)
(* subscriptions of the superup marketplace server: the User / Wallet /    *)
(* Order / Product / Subscription models and their routes, as a state      *)
(* machine over the collections.                                           *)
(***************************************************************************)
EXTENDS Integers, Sequences, FiniteSets, TLC

\* ------------------------------------------------------------------ bounds
\* number of Order documents that may be created
MaxOrders == 1
\* total number of transactions over all wallet logs
MaxTx == 3
\* number of requests that may be in flight together
MaxReq == 2
\* last day the clock reaches
MaxNow == 64

\* --------------------------------------------------------- program constants
PlatformFee == 1200
DeliveryFee == 1000
AdminFee == 200

\* ------------------------------------------------------------------- users
\* roles of the users at the start.  b1 and s2 registered with their roles;
\* b2 was made a buyer through PUT /admin/users/:id, which creates no wallet;
\* s1 registered as a buyer, was granted seller by add-role and lost buyer by
\* remove-role; n1 has not registered yet.
UserRoles ==
  ("b1" :> {"buyer", "seller"}) @@ ("b2" :> {"buyer"}) @@
  ("s1" :> {"seller"}) @@ ("s2" :> {"seller"}) @@
  ("d1" :> {"delivery"}) @@ ("a1" :> {"admin"}) @@ ("n1" :> {})

Users == DOMAIN UserRoles

WalletTypes == {"buyer", "seller", "delivery", "admin"}

CreditTypes == {"deposit", "refund", "commission"}
DebitTypes == {"withdrawal", "payment", "fee"}

Statuses == {"pending", "processing", "shipped", "delivered", "cancelled", "refunded"}
DeliveryUpdates == {"picked_up", "in_transit", "delivered", "failed"}
PaymentMethods == {"wallet", "mobile_money"}

\* request inputs
DepositAmounts == {6000}
DebitAmounts == {4000, 10000}
Proofs == {"sigA"}
AdminStatuses == {"shipped", "delivered", "cancelled"}
DeliveryInputs == {"picked_up", "delivered"}
ItemLists ==
  { <<[product |-> "p1", quantity |-> 2], [product |-> "p2", quantity |-> 1]>>,
    <<[product |-> "p1", quantity |-> 2], [product |-> "p1", quantity |-> 2]>>,
    <<[product |-> "p2", quantity |-> 2]>>,
    <<[product |-> "p9", quantity |-> 1]>> }

VARIABLES wallets, orders, products, subs, resp, reqs, users, now

vars == <<wallets, orders, products, subs, resp, reqs, users, now>>

\* --------------------------------------------------------------- User model
\* an unset Date
NoDate == 0 - 1

\* the fields of a User document the routes below read: roles, the
\* sellerInfo subscription status and end date, deliveryInfo.isAvailable
NewUser(roles) ==
  [registered |-> TRUE, roles |-> roles, sellerStatus |-> "trial",
   sellerEnd |-> NoDate, isAvailable |-> FALSE]

\* sellerInfo.subscriptionType accepts these values only
SellerTypes == {"weekly", "monthly", "yearly", "none"}

\* --------------------------------------------------------------- middleware
checkRole(u, roles) == users[u].registered /\ (users[u].roles \cap roles) # {}

\* ------------------------------------------------------------ Wallet model
NewWallet(owner, type) ==
  [owner |-> owner, walletType |-> type, balance |-> 0, transactions |-> <<>>]

Tx(type, amount, oid) ==
  [type |-> type, amount |-> amount, status |-> "completed", relatedOrder |-> oid]

\* faulty variant: 'payment' left out of the debit types
addTransaction_PaymentIgnored(w, tx) ==
  [w EXCEPT !.transactions = Append(@, tx),
            !.balance = IF tx.type \in CreditTypes THEN @ + tx.amount
                        ELSE IF tx.type \in (DebitTypes \ {"payment"}) THEN @ - tx.amount
                        ELSE @]

addTransaction(w, tx) ==
  [w EXCEPT !.transactions = Append(@, tx),
            !.balance = IF tx.type \in CreditTypes THEN @ + tx.amount
                        ELSE IF tx.type \in DebitTypes THEN @ - tx.amount
                        ELSE @]

\* faulty variant: the balance is tested, not the balance against the amount
hasSufficientBalance_NonNegative(w, amount) == w.balance >= 0

\* faulty variant: no test at all
hasSufficientBalance_Always(w, amount) == TRUE

\* faulty variant: any funded wallet passes
hasSufficientBalance_Funded(w, amount) == w.balance > 0

hasSufficientBalance(w, amount) == w.balance >= amount

\* Wallet.findOne({owner, walletType}): index of the first match, 0 if none
FindWallet(ws, owner, type) ==
  LET m == {i \in 1..Len(ws) : ws[i].owner = owner /\ ws[i].walletType = type}
  IN IF m = {} THEN 0 ELSE CHOOSE i \in m : \A j \in m : i <= j

RECURSIVE TxCountFrom(_, _)
TxCountFrom(ws, i) ==
  IF i > Len(ws) THEN 0 ELSE Len(ws[i].transactions) + TxCountFrom(ws, i + 1)

TxCount == TxCountFrom(wallets, 1)

\* ----------------------------------------------------------- Product model
isInStock(p, q) == p.stock >= q /\ p.isAvailable

\* faulty variant: availability is not cleared when the stock reaches 0
reduceStock_KeepsAvailable(p, q) ==
  IF ~isInStock(p, q) THEN [ok |-> FALSE, p |-> p]
  ELSE [ok |-> TRUE, p |-> [p EXCEPT !.stock = @ - q]]

\* reduceStock: ok = FALSE stands for the thrown 'Insufficient stock'
reduceStock(p, q) ==
  IF ~isInStock(p, q) THEN [ok |-> FALSE, p |-> p]
  ELSE [ok |-> TRUE,
        p |-> [p EXCEPT !.stock = @ - q,
                        !.isAvailable = IF p.stock - q = 0 THEN FALSE ELSE @]]

\* ------------------------------------------------------ Subscription model
\* the plan, status and price of the seller's Subscription document
\* durations in days; a month counts 30 days, a year 365
WeekDays == 7
MonthDays == 30
YearDays == 365

PaidPlans == {"weekly", "monthly", "yearly"}

NoSub == [plan |-> "none", status |-> "none", price |-> 0,
          startDate |-> NoDate, endDate |-> NoDate, renewalHistory |-> <<>>]

PlanPrice(plan) ==
  CASE plan = "weekly" -> 2000
    [] plan = "monthly" -> 7500
    [] plan = "yearly" -> 75000
    [] OTHER -> 0

\* faulty variant: the free trial lasts one month
PlanDays_ShortTrial(plan) ==
  CASE plan = "free_trial" -> MonthDays
    [] plan = "weekly" -> WeekDays
    [] plan = "monthly" -> MonthDays
    [] plan = "yearly" -> YearDays
    [] OTHER -> 0

PlanDays(plan) ==
  CASE plan = "free_trial" -> 2 * MonthDays
    [] plan = "weekly" -> WeekDays
    [] plan = "monthly" -> MonthDays
    [] plan = "yearly" -> YearDays
    [] OTHER -> 0

\* subscriptionSchema.pre('save'): end date and price follow the plan of a
\* new document or of one whose plan was modified
preSaveSub(sub, planModified) ==
  IF planModified /\ sub.plan \in PaidPlans \cup {"free_trial"}
  THEN [sub EXCEPT !.endDate = now + PlanDays(sub.plan), !.price = PlanPrice(sub.plan)]
  ELSE sub

\* new Subscription({plan, ...}) saved: status and startDate take their defaults
NewSubscription(plan) ==
  preSaveSub([plan |-> plan, status |-> "active", price |-> 0,
              startDate |-> now, endDate |-> NoDate, renewalHistory |-> <<>>], TRUE)

\* faulty variant: the end date is not looked at
isActive_StatusOnly(sub) == sub.status = "active"

isActive(sub) == sub.status = "active" /\ now <= sub.endDate

\* the entry renew and changePlan push on renewalHistory
Archived(sub) ==
  [plan |-> sub.plan, startDate |-> sub.startDate, endDate |-> sub.endDate,
   price |-> sub.price, status |-> sub.status]

\* faulty variant: the new cycle is appended to the previous end date
renew_FromPreviousEnd(sub) ==
  [sub EXCEPT !.renewalHistory = Append(@, Archived(sub)),
              !.startDate = now,
              !.status = "active",
              !.endDate = IF sub.plan \in PaidPlans
                          THEN sub.endDate + PlanDays(sub.plan) ELSE @]

\* faulty variant: a renewed free trial starts a new two-month window
renew_ExtendsTrial(sub) ==
  [sub EXCEPT !.renewalHistory = Append(@, Archived(sub)),
              !.startDate = now,
              !.status = "active",
              !.endDate = now + PlanDays(sub.plan)]

\* subscription.renew(paymentDetails), its save included (plan not modified)
renew(sub) ==
  preSaveSub([sub EXCEPT !.renewalHistory = Append(@, Archived(sub)),
                         !.startDate = now,
                         !.status = "active",
                         !.endDate = IF sub.plan \in PaidPlans
                                     THEN now + PlanDays(sub.plan) ELSE @],
             FALSE)

\* subscription.changePlan(newPlan, paymentDetails), its save included
changePlan(sub, newPlan) ==
  LET switched == [sub EXCEPT !.plan = newPlan] IN
  preSaveSub([switched EXCEPT !.renewalHistory = Append(@, Archived(switched)),
                              !.startDate = now,
                              !.status = "active"],
             sub.plan # newPlan)

\* ---------------------------------------------------------------- responses
Respond(op, code, msg, who, oid, amt) ==
  [op |-> op, code |-> code, msg |-> msg, who |-> who, oid |-> oid, amt |-> amt]

\* the order-update routes answer with the order or an error; no property
\* below reads those answers, so they are kept as one value
OrderResponse == Respond("orderUpdate", 0, "none", "none", 0, 0)

\* a request being served: where its handler stands between two awaits, and
\* the documents it holds in memory
IdleReq == [pc |-> "idle", who |-> "none", items |-> <<>>, amount |-> 0,
            oid |-> 0, doc |-> NewWallet("none", "none")]

\* -------------------------------------------------------------------- Init
Init ==
  /\ wallets =
       << NewWallet("b1", "buyer"), NewWallet("b1", "seller"),
          NewWallet("s1", "buyer"), NewWallet("s1", "seller"),
          NewWallet("s2", "seller"),
          NewWallet("d1", "delivery"), NewWallet("a1", "admin") >>
  /\ now = 0
  /\ orders = <<>>
  /\ products =
       ("p1" :> [seller |-> "s1", price |-> 2500, stock |-> 3, isAvailable |-> TRUE]) @@
       ("p2" :> [seller |-> "s2", price |-> 3000, stock |-> 1, isAvailable |-> TRUE])
  /\ subs = [u \in Users |-> IF u = "s1" THEN NewSubscription("free_trial") ELSE NoSub]
  /\ resp = Respond("none", 0, "none", "none", 0, 0)
  /\ reqs = [r \in 1..MaxReq |-> IdleReq]
  /\ users = [u \in Users |->
                IF UserRoles[u] = {}
                THEN [NewUser({}) EXCEPT !.registered = FALSE]
                ELSE NewUser(UserRoles[u])]

\* ------------------------------------------------------------ wallet routes
SetWallet(ws, i, w) == [ws EXCEPT ![i] = w]

\* POST /wallet/deposit
Deposit(u, type, amount) ==
  /\ UNCHANGED <<subs, reqs, users, now>>
  /\ TxCount < MaxTx
  /\ LET i == FindWallet(wallets, u, type) IN
     IF type \notin WalletTypes
     THEN /\ resp' = Respond("deposit", 400, "invalid_wallet_type", u, 0, 0)
          /\ UNCHANGED <<wallets, orders, products>>
     ELSE IF i = 0
     THEN /\ resp' = Respond("deposit", 404, "wallet_not_found", u, 0, 0)
          /\ UNCHANGED <<wallets, orders, products>>
     ELSE /\ wallets' = SetWallet(wallets, i, addTransaction(wallets[i], Tx("deposit", amount, 0)))
          /\ resp' = Respond("deposit", 200, "ok", u, 0, 0)
          /\ UNCHANGED <<orders, products>>

\* POST /wallet/withdraw
Withdraw(u, type, amount) ==
  /\ UNCHANGED <<subs, reqs, users, now>>
  /\ TxCount < MaxTx
  /\ LET i == FindWallet(wallets, u, type) IN
     IF type \notin WalletTypes
     THEN /\ resp' = Respond("withdraw", 400, "invalid_wallet_type", u, 0, 0)
          /\ UNCHANGED <<wallets, orders, products>>
     ELSE IF i = 0
     THEN /\ resp' = Respond("withdraw", 404, "wallet_not_found", u, 0, 0)
          /\ UNCHANGED <<wallets, orders, products>>
     ELSE IF ~hasSufficientBalance(wallets[i], amount)
     THEN /\ resp' = Respond("withdraw", 400, "insufficient_balance", u, 0, 0)
          /\ UNCHANGED <<wallets, orders, products>>
     ELSE /\ wallets' = SetWallet(wallets, i, addTransaction(wallets[i], Tx("withdrawal", amount, 0)))
          /\ resp' = Respond("withdraw", 200, "ok", u, 0, 0)
          /\ UNCHANGED <<orders, products>>

\* POST /wallet/transfer.  Both transactions carry the same reference and the
\* transaction schema declares reference unique: where the database enforces
\* that index the second save is rejected (dupRef) after the first is stored.
Transfer(u, from, to, amount, dupRef) ==
  /\ UNCHANGED <<subs, reqs, users, now>>
  /\ TxCount + 1 < MaxTx
  /\ LET i == FindWallet(wallets, u, from)
         j == FindWallet(wallets, u, to)
     IN
     IF from \notin WalletTypes \/ to \notin WalletTypes
     THEN /\ resp' = Respond("transfer", 400, "invalid_wallet_type", u, 0, 0)
          /\ UNCHANGED <<wallets, orders, products>>
     ELSE IF from = to
     THEN /\ resp' = Respond("transfer", 400, "same_wallet", u, 0, 0)
          /\ UNCHANGED <<wallets, orders, products>>
     ELSE IF i = 0 \/ j = 0
     THEN /\ resp' = Respond("transfer", 404, "wallet_not_found", u, 0, 0)
          /\ UNCHANGED <<wallets, orders, products>>
     ELSE IF ~hasSufficientBalance(wallets[i], amount)
     THEN /\ resp' = Respond("transfer", 400, "insufficient_balance", u, 0, 0)
          /\ UNCHANGED <<wallets, orders, products>>
     ELSE LET w1 == SetWallet(wallets, i, addTransaction(wallets[i], Tx("withdrawal", amount, 0)))
          IN IF dupRef
             THEN /\ wallets' = w1
                  /\ resp' = Respond("transfer", 500, "server_error", u, 0, 0)
                  /\ UNCHANGED <<orders, products>>
             ELSE /\ wallets' = SetWallet(w1, j, addTransaction(w1[j], Tx("deposit", amount, 0)))
                  /\ resp' = Respond("transfer", 200, "ok", u, 0, 0)
                  /\ UNCHANGED <<orders, products>>

\* -------------------------------------------------------------- Order model
RECURSIVE SumSubtotals(_, _)
SumSubtotals(items, i) ==
  IF i > Len(items) THEN 0 ELSE items[i].subtotal + SumSubtotals(items, i + 1)

\* faulty variant: the hook forgets the platform fee
preSaveTotal_NoFee(o) == [o EXCEPT !.totalAmount = SumSubtotals(o.items, 1)]

\* orderSchema.pre('save'): a new document has items modified
preSaveTotal(o) == [o EXCEPT !.totalAmount = SumSubtotals(o.items, 1) + o.platformFee]

assignDeliveryAgent(o, agent) ==
  [o EXCEPT !.deliveryAgent = agent, !.deliveryStatus = "assigned"]

\* faulty variant: a delivered order is marked paid instead of released
updateStatus_MarksPaid(o, status) ==
  [o EXCEPT !.status = status,
            !.paymentStatus = IF status = "delivered" THEN "paid"
                              ELSE IF status = "cancelled" THEN "refunded"
                              ELSE @]

updateStatus(o, status) ==
  [o EXCEPT !.status = status,
            !.paymentStatus = IF status = "delivered" THEN "released"
                              ELSE IF status = "cancelled" THEN "refunded"
                              ELSE @]

updateDeliveryStatus(o, status, proof) ==
  IF status = "delivered"
  THEN [o EXCEPT !.deliveryStatus = status,
                 !.deliveryProof = proof,
                 !.status = "delivered",
                 !.paymentStatus = "released"]
  ELSE [o EXCEPT !.deliveryStatus = status]

\* ------------------------------------------------------ POST /orders helpers
\* the first failing check of the per-item validation loop, "ok" if none
RECURSIVE ValidateItems(_, _, _)
ValidateItems(prods, items, i) ==
  IF i > Len(items) THEN "ok"
  ELSE IF items[i].product \notin DOMAIN prods THEN "product_not_found"
  ELSE IF ~prods[items[i].product].isAvailable THEN "not_available"
  ELSE IF prods[items[i].product].stock < items[i].quantity THEN "insufficient_stock"
  ELSE ValidateItems(prods, items, i + 1)

OrderItems(prods, items) ==
  [i \in 1..Len(items) |->
     [product |-> items[i].product,
      quantity |-> items[i].quantity,
      price |-> prods[items[i].product].price,
      subtotal |-> prods[items[i].product].price * items[i].quantity]]

OrderTotal(orderItems) == SumSubtotals(orderItems, 1) + PlatformFee

NewOrder(b, orderItems, totalAmount, method) ==
  preSaveTotal(
    [buyer |-> b, items |-> orderItems, totalAmount |-> totalAmount,
     platformFee |-> PlatformFee, deliveryFee |-> DeliveryFee, adminFee |-> AdminFee,
     status |-> "pending", paymentStatus |-> "pending", paymentMethod |-> method,
     deliveryAgent |-> "none", deliveryStatus |-> "pending", deliveryProof |-> "none"])

\* the stock reduction loop: stops at the first reduceStock that throws
RECURSIVE ReduceAll(_, _, _)
ReduceAll(prods, items, i) ==
  IF i > Len(items) THEN [ok |-> TRUE, products |-> prods]
  ELSE LET r == reduceStock(prods[items[i].product], items[i].quantity) IN
       IF ~r.ok THEN [ok |-> FALSE, products |-> prods]
       ELSE ReduceAll([prods EXCEPT ![items[i].product] = r.p], items, i + 1)

\* POST /orders
CreateOrder(b, items, method) ==
  /\ UNCHANGED <<subs, reqs, users, now>>
  /\ checkRole(b, {"buyer"})
  /\ Len(orders) < MaxOrders
  /\ method = "wallet" => TxCount < MaxTx
  /\ LET v == ValidateItems(products, items, 1) IN
     IF v # "ok"
     THEN /\ resp' = Respond("createOrder", IF v = "product_not_found" THEN 404 ELSE 400,
                             v, b, 0, 0)
          /\ UNCHANGED <<wallets, orders, products>>
     ELSE
     LET orderItems == OrderItems(products, items)
         totalAmount == OrderTotal(orderItems)
         i == FindWallet(wallets, b, "buyer")
         oid == Len(orders) + 1
         order == NewOrder(b, orderItems, totalAmount, method)
     IN
     IF method = "wallet" /\ i = 0
     THEN /\ resp' = Respond("createOrder", 404, "wallet_not_found", b, 0, totalAmount)
          /\ UNCHANGED <<wallets, orders, products>>
     ELSE IF method = "wallet" /\ ~hasSufficientBalance(wallets[i], totalAmount)
     THEN /\ resp' = Respond("createOrder", 400, "insufficient_balance", b, 0, totalAmount)
          /\ UNCHANGED <<wallets, orders, products>>
     ELSE IF method # "wallet"
     THEN /\ orders' = Append(orders, order)
          /\ resp' = Respond("createOrder", 200, "ok", b, oid, totalAmount)
          /\ UNCHANGED <<wallets, products>>
     ELSE
     LET paid == [order EXCEPT !.paymentStatus = "paid", !.status = "processing"]
         red == ReduceAll(products, orderItems, 1)
     IN
     /\ wallets' = SetWallet(wallets, i,
                      addTransaction(wallets[i], Tx("payment", totalAmount, oid)))
     /\ orders' = Append(orders, paid)
     /\ products' = red.products
     /\ resp' = IF red.ok THEN Respond("createOrder", 200, "ok", b, oid, totalAmount)
                ELSE Respond("createOrder", 500, "server_error", b, oid, totalAmount)

\* --------------------------------------------------------------- settlement
SellerOf(prods, item) ==
  IF item.product \in DOMAIN prods THEN prods[item.product].seller ELSE "none"

RECURSIVE SellerTotal(_, _, _, _)
SellerTotal(prods, items, seller, i) ==
  IF i > Len(items) THEN 0
  ELSE (IF SellerOf(prods, items[i]) = seller THEN items[i].subtotal ELSE 0)
       + SellerTotal(prods, items, seller, i + 1)

Credit(ws, owner, type, tx) ==
  LET i == FindWallet(ws, owner, type) IN
  IF i = 0 THEN ws ELSE SetWallet(ws, i, addTransaction(ws[i], tx))

\* sellers are credited in the order of their first item
RECURSIVE PaySellers(_, _, _, _, _)
PaySellers(ws, prods, items, oid, i) ==
  IF i > Len(items) THEN ws
  ELSE LET sel == SellerOf(prods, items[i])
           first == \A j \in 1..(i - 1) : SellerOf(prods, items[j]) # sel
       IN IF sel # "none" /\ first
          THEN PaySellers(
                 Credit(ws, sel, "seller",
                        Tx("deposit", SellerTotal(prods, items, sel, 1), oid)),
                 prods, items, oid, i + 1)
          ELSE PaySellers(ws, prods, items, oid, i + 1)

\* User.findOne({roles: 'admin'})
AdminUser ==
  IF \E u \in Users : users[u].registered /\ "admin" \in users[u].roles
  THEN CHOOSE u \in Users : users[u].registered /\ "admin" \in users[u].roles
  ELSE "none"

distributePayment(ws, prods, o, oid) ==
  LET w1 == PaySellers(ws, prods, o.items, oid, 1)
      w2 == IF o.deliveryAgent # "none"
            THEN Credit(w1, o.deliveryAgent, "delivery", Tx("commission", o.deliveryFee, oid))
            ELSE w1
      w3 == IF AdminUser # "none"
            THEN Credit(w2, AdminUser, "admin", Tx("fee", o.adminFee, oid))
            ELSE w2
  IN [wallets |-> w3, order |-> [o EXCEPT !.paymentStatus = "released"]]

processRefund(ws, o, oid) ==
  LET i == FindWallet(ws, o.buyer, "buyer") IN
  IF i = 0 THEN [wallets |-> ws, order |-> o]
  ELSE [wallets |-> SetWallet(ws, i, addTransaction(ws[i], Tx("refund", o.totalAmount, oid))),
        order |-> [o EXCEPT !.paymentStatus = "refunded"]]

\* ------------------------------------------------------------- order routes
\* PUT /orders/:id/status
UpdateStatus(a, oid, status) ==
  /\ UNCHANGED <<subs, reqs, users, now>>
  /\ checkRole(a, {"admin"})
  /\ IF oid \notin DOMAIN orders
     THEN /\ resp' = OrderResponse
          /\ UNCHANGED <<wallets, orders, products>>
     ELSE LET o1 == updateStatus(orders[oid], status)
              r == IF status = "delivered" /\ o1.paymentStatus = "paid"
                   THEN distributePayment(wallets, products, o1, oid)
                   ELSE IF status = "cancelled" /\ o1.paymentStatus = "paid"
                   THEN processRefund(wallets, o1, oid)
                   ELSE [wallets |-> wallets, order |-> o1]
          IN /\ orders' = [orders EXCEPT ![oid] = r.order]
             /\ wallets' = r.wallets
             /\ resp' = OrderResponse
             /\ UNCHANGED products

\* PUT /orders/:id/assign-delivery
AssignDelivery(a, oid, agent) ==
  /\ UNCHANGED <<subs, reqs, users, now>>
  /\ checkRole(a, {"admin"})
  /\ IF ~users[agent].registered \/ "delivery" \notin users[agent].roles
     THEN /\ resp' = OrderResponse
          /\ UNCHANGED <<wallets, orders, products>>
     ELSE IF oid \notin DOMAIN orders
     THEN /\ resp' = OrderResponse
          /\ UNCHANGED <<wallets, orders, products>>
     ELSE /\ orders' = [orders EXCEPT ![oid] = assignDeliveryAgent(@, agent)]
          /\ resp' = OrderResponse
          /\ UNCHANGED <<wallets, products>>

\* PUT /orders/:id/delivery-status
DeliveryStatus(d, oid, status, proof) ==
  /\ UNCHANGED <<subs, reqs, users, now>>
  /\ checkRole(d, {"delivery"})
  /\ IF oid \notin DOMAIN orders
     THEN /\ resp' = OrderResponse
          /\ UNCHANGED <<wallets, orders, products>>
     ELSE IF orders[oid].deliveryAgent # d
     THEN /\ resp' = OrderResponse
          /\ UNCHANGED <<wallets, orders, products>>
     ELSE LET o1 == updateDeliveryStatus(orders[oid], status, proof)
              r == IF status = "delivered" /\ o1.paymentStatus = "paid"
                   THEN distributePayment(wallets, products, o1, oid)
                   ELSE [wallets |-> wallets, order |-> o1]
          IN /\ orders' = [orders EXCEPT ![oid] = r.order]
             /\ wallets' = r.wallets
             /\ resp' = OrderResponse
             /\ UNCHANGED products

\* PUT /admin/orders/:id
AdminOrderUpdate(a, oid, status) ==
  /\ UNCHANGED <<subs, reqs, users, now>>
  /\ checkRole(a, {"admin"})
  /\ IF oid \notin DOMAIN orders
     THEN /\ resp' = OrderResponse
          /\ UNCHANGED <<wallets, orders, products>>
     ELSE /\ orders' = [orders EXCEPT ![oid].status = status]
          /\ resp' = OrderResponse
          /\ UNCHANGED <<wallets, products>>

\* ------------------------------------------------------ subscription routes
\* what the wallet-paid branches write on user.sellerInfo
PaidSellerInfo(u, sub) ==
  [users EXCEPT ![u].sellerStatus = "active", ![u].sellerEnd = sub.endDate]

\* POST /subscription
Subscribe(u, plan, method) ==
  /\ UNCHANGED <<reqs, now>>
  /\ checkRole(u, {"seller"})
  /\ method = "wallet" => TxCount < MaxTx
  /\ UNCHANGED <<orders, products>>
  /\ LET isNew == subs[u] = NoSub
         sub0 == IF isNew
                 THEN [NoSub EXCEPT !.plan = plan, !.status = "active", !.startDate = now]
                 ELSE [subs[u] EXCEPT !.plan = plan]
         saved == preSaveSub(sub0, isNew \/ subs[u].plan # plan)
         i == FindWallet(wallets, u, "seller")
     IN
     IF plan = "free_trial"
     THEN \* user.save() rejects sellerInfo.subscriptionType = 'free_trial'
          \* before the subscription is saved
          /\ resp' = Respond("subscribe", 500, "server_error", u, 0, 0)
          /\ UNCHANGED <<wallets, subs, users>>
     ELSE IF method # "wallet"
     THEN /\ subs' = [subs EXCEPT ![u] = [saved EXCEPT !.status = "pending"]]
          /\ resp' = Respond("subscribe", 200, "ok", u, 0, 0)
          /\ UNCHANGED <<wallets, users>>
     ELSE IF i = 0
     THEN /\ subs' = [subs EXCEPT ![u] = saved]
          /\ resp' = Respond("subscribe", 404, "wallet_not_found", u, 0, saved.price)
          /\ UNCHANGED <<wallets, users>>
     ELSE IF ~hasSufficientBalance(wallets[i], saved.price)
     THEN /\ subs' = [subs EXCEPT ![u] = saved]
          /\ resp' = Respond("subscribe", 400, "insufficient_balance", u, 0, saved.price)
          /\ UNCHANGED <<wallets, users>>
     ELSE /\ wallets' = SetWallet(wallets, i,
                           addTransaction(wallets[i], Tx("payment", saved.price, 0)))
          /\ subs' = [subs EXCEPT ![u] = saved]
          /\ users' = PaidSellerInfo(u, saved)
          /\ resp' = Respond("subscribe", 200, "ok", u, 0, saved.price)

\* PUT /subscription/renew
Renew(u, method) ==
  /\ UNCHANGED <<reqs, now>>
  /\ checkRole(u, {"seller"})
  /\ method = "wallet" => TxCount < MaxTx
  /\ UNCHANGED <<orders, products>>
  /\ LET sub == subs[u]
         i == FindWallet(wallets, u, "seller")
     IN
     IF sub = NoSub
     THEN /\ resp' = Respond("renew", 404, "subscription_not_found", u, 0, 0)
          /\ UNCHANGED <<wallets, subs, users>>
     ELSE IF method # "wallet"
     THEN /\ subs' = [subs EXCEPT ![u].status = "pending"]
          /\ resp' = Respond("renew", 200, "ok", u, 0, 0)
          /\ UNCHANGED <<wallets, users>>
     ELSE IF i = 0
     THEN /\ resp' = Respond("renew", 404, "wallet_not_found", u, 0, sub.price)
          /\ UNCHANGED <<wallets, subs, users>>
     ELSE IF ~hasSufficientBalance(wallets[i], sub.price)
     THEN /\ resp' = Respond("renew", 400, "insufficient_balance", u, 0, sub.price)
          /\ UNCHANGED <<wallets, subs, users>>
     ELSE /\ wallets' = SetWallet(wallets, i,
                           addTransaction(wallets[i], Tx("payment", sub.price, 0)))
          /\ subs' = [subs EXCEPT ![u] = renew(sub)]
          /\ IF sub.plan \in SellerTypes
             THEN /\ users' = PaidSellerInfo(u, renew(sub))
                  /\ resp' = Respond("renew", 200, "ok", u, 0, sub.price)
             ELSE \* user.save() rejects sellerInfo.subscriptionType
                  /\ resp' = Respond("renew", 500, "server_error", u, 0, sub.price)
                  /\ UNCHANGED users

\* PUT /subscription/change-plan
ChangePlan(u, plan, method) ==
  /\ UNCHANGED <<reqs, now>>
  /\ checkRole(u, {"seller"})
  /\ plan \in PaidPlans
  /\ method = "wallet" => TxCount < MaxTx
  /\ UNCHANGED <<orders, products>>
  /\ LET sub == subs[u]
         price == PlanPrice(plan)
         i == FindWallet(wallets, u, "seller")
     IN
     IF sub = NoSub
     THEN /\ resp' = Respond("changePlan", 404, "subscription_not_found", u, 0, 0)
          /\ UNCHANGED <<wallets, subs, users>>
     ELSE IF method # "wallet"
     THEN /\ subs' = [subs EXCEPT ![u].status = "pending"]
          /\ resp' = Respond("changePlan", 200, "ok", u, 0, 0)
          /\ UNCHANGED <<wallets, users>>
     ELSE IF i = 0
     THEN /\ resp' = Respond("changePlan", 404, "wallet_not_found", u, 0, price)
          /\ UNCHANGED <<wallets, subs, users>>
     ELSE IF ~hasSufficientBalance(wallets[i], price)
     THEN /\ resp' = Respond("changePlan", 400, "insufficient_balance", u, 0, price)
          /\ UNCHANGED <<wallets, subs, users>>
     ELSE /\ wallets' = SetWallet(wallets, i,
                           addTransaction(wallets[i], Tx("payment", price, 0)))
          /\ subs' = [subs EXCEPT ![u] = changePlan(sub, plan)]
          /\ users' = PaidSellerInfo(u, changePlan(sub, plan))
          /\ resp' = Respond("changePlan", 200, "ok", u, 0, price)

\* PUT /subscription/cancel
Cancel(u) ==
  /\ UNCHANGED <<reqs, now, wallets, orders, products>>
  /\ checkRole(u, {"seller"})
  /\ IF subs[u] = NoSub
     THEN /\ resp' = Respond("cancel", 404, "subscription_not_found", u, 0, 0)
          /\ UNCHANGED <<subs, users>>
     ELSE /\ subs' = [subs EXCEPT ![u].status = "cancelled"]
          /\ users' = [users EXCEPT ![u].sellerStatus = "cancelled"]
          /\ resp' = Respond("cancel", 200, "ok", u, 0, 0)

\* -------------------------------------------------- accounts and their roles
UserRoleEnum == {"buyer", "seller", "delivery", "admin", "customer_service"}

\* the wallet types in a fixed order, to append new wallets one by one
WalletTypeSeq == <<"buyer", "seller", "delivery", "admin">>

\* the wallets POST /register saves: one per role that has a wallet type
RECURSIVE RoleWallets(_, _, _)
RoleWallets(u, roles, i) ==
  IF i > Len(WalletTypeSeq) THEN <<>>
  ELSE (IF WalletTypeSeq[i] \in roles THEN <<NewWallet(u, WalletTypeSeq[i])>> ELSE <<>>)
       \o RoleWallets(u, roles, i + 1)

\* POST /auth/register: roles come from the request body
Register(u, roles) ==
  /\ UNCHANGED <<orders, products, subs, reqs, now>>
  /\ IF users[u].registered
     THEN /\ resp' = Respond("register", 400, "user_exists", u, 0, 0)
          /\ UNCHANGED <<users, wallets>>
     ELSE IF ~(roles \subseteq UserRoleEnum)
     THEN /\ resp' = Respond("register", 500, "server_error", u, 0, 0)
          /\ UNCHANGED <<users, wallets>>
     ELSE /\ users' = [users EXCEPT ![u] = NewUser(roles)]
          /\ wallets' = wallets \o RoleWallets(u, roles, 1)
          /\ resp' = Respond("register", 200, "ok", u, 0, 0)

\* PUT /users/add-role/:id
AddRole(a, u, role) ==
  /\ UNCHANGED <<orders, products, reqs, now>>
  /\ checkRole(a, {"admin"})
  /\ IF ~users[u].registered
     THEN /\ resp' = Respond("addRole", 404, "user_not_found", u, 0, 0)
          /\ UNCHANGED <<users, wallets, subs>>
     ELSE IF role \notin UserRoleEnum
     THEN /\ resp' = Respond("addRole", 400, "invalid_role", u, 0, 0)
          /\ UNCHANGED <<users, wallets, subs>>
     ELSE IF role \in users[u].roles
     THEN /\ resp' = Respond("addRole", 400, "has_role", u, 0, 0)
          /\ UNCHANGED <<users, wallets, subs>>
     ELSE /\ subs' = IF role = "seller" /\ subs[u] = NoSub
                      THEN [subs EXCEPT ![u] = NewSubscription("free_trial")]
                      ELSE subs
          /\ wallets' = IF role \in WalletTypes /\ FindWallet(wallets, u, role) = 0
                         THEN Append(wallets, NewWallet(u, role))
                         ELSE wallets
          /\ users' = [users EXCEPT ![u].roles = @ \cup {role}]
          /\ resp' = Respond("addRole", 200, "ok", u, 0, 0)

\* PUT /users/remove-role/:id
RemoveRole(a, u, role) ==
  /\ UNCHANGED <<orders, products, reqs, now, wallets, subs>>
  /\ checkRole(a, {"admin"})
  /\ IF ~users[u].registered
     THEN /\ resp' = Respond("removeRole", 404, "user_not_found", u, 0, 0)
          /\ UNCHANGED users
     ELSE IF role \notin UserRoleEnum
     THEN /\ resp' = Respond("removeRole", 400, "invalid_role", u, 0, 0)
          /\ UNCHANGED users
     ELSE IF role \notin users[u].roles
     THEN /\ resp' = Respond("removeRole", 400, "no_role", u, 0, 0)
          /\ UNCHANGED users
     ELSE IF Cardinality(users[u].roles) = 1
     THEN /\ resp' = Respond("removeRole", 400, "last_role", u, 0, 0)
          /\ UNCHANGED users
     ELSE /\ users' = [users EXCEPT ![u].roles = @ \ {role}]
          /\ resp' = Respond("removeRole", 200, "ok", u, 0, 0)

\* PUT /admin/users/:id with roles in the body
AdminUserUpdate(a, u, roles) ==
  /\ UNCHANGED <<orders, products, reqs, now, wallets, subs>>
  /\ checkRole(a, {"admin"})
  /\ IF ~users[u].registered
     THEN /\ resp' = Respond("adminUserUpdate", 404, "user_not_found", u, 0, 0)
          /\ UNCHANGED users
     ELSE IF ~(roles \subseteq UserRoleEnum)
     THEN /\ resp' = Respond("adminUserUpdate", 500, "server_error", u, 0, 0)
          /\ UNCHANGED users
     ELSE /\ users' = [users EXCEPT ![u].roles = roles]
          /\ resp' = Respond("adminUserUpdate", 200, "ok", u, 0, 0)

\* PUT /delivery/availability
SetAvailability(d, avail) ==
  /\ UNCHANGED <<orders, products, reqs, now, wallets, subs>>
  /\ checkRole(d, {"delivery"})
  /\ users' = [users EXCEPT ![d].isAvailable = avail]
  /\ resp' = Respond("availability", 200, "ok", d, 0, 0)

\* PUT /delivery/accept/:id
DeliveryAccept(d, oid) ==
  /\ UNCHANGED <<subs, reqs, users, now>>
  /\ checkRole(d, {"delivery"})
  /\ resp' = OrderResponse
  /\ UNCHANGED <<wallets, products>>
  /\ IF oid \notin DOMAIN orders
     THEN UNCHANGED orders
     ELSE IF \/ orders[oid].status # "processing"
             \/ orders[oid].deliveryStatus # "pending"
             \/ orders[oid].deliveryAgent # "none"
     THEN UNCHANGED orders
     ELSE IF ~users[d].isAvailable
     THEN UNCHANGED orders
     ELSE orders' = [orders EXCEPT ![oid] = assignDeliveryAgent(@, d)]

\* ------------------------------------------------------------ POST /products
\* ids of the Product documents still to be created
NewProductIds == {"p3"}

NextProductId == CHOOSE p \in NewProductIds : p \notin DOMAIN products

CreateProduct(u, price, stock) ==
  /\ UNCHANGED <<wallets, orders, subs, reqs, users, now>>
  /\ checkRole(u, {"seller"})
  /\ NewProductIds \ DOMAIN products # {}
  /\ IF /\ (subs[u] = NoSub \/ ~isActive(subs[u]))
        /\ \/ users[u].sellerStatus # "trial"
           \/ users[u].sellerEnd = NoDate
           \/ now > users[u].sellerEnd
     THEN /\ resp' = Respond("createProduct", 403, "subscription_required", u, 0, 0)
          /\ UNCHANGED products
     ELSE /\ products' = products @@
               (NextProductId :> [seller |-> u, price |-> price, stock |-> stock,
                                  isAvailable |-> TRUE])
          /\ resp' = Respond("createProduct", 200, "ok", u, 0, 0)

\* ------------------------------------------------------------------- time
\* the clock advances between two requests
Tick(d) ==
  /\ now + d <= MaxNow
  /\ now' = now + d
  /\ UNCHANGED <<wallets, orders, products, subs, resp, reqs, users>>

\* ---------------------------------------------------------------- the system
\* checkout and order lifecycle
Next ==
  \/ \E a \in DepositAmounts : Deposit("b1", "buyer", a)
  \/ \E items \in ItemLists, m \in PaymentMethods : CreateOrder("b1", items, m)
  \/ \E a \in Users, oid \in 1..MaxOrders, s \in AdminStatuses : UpdateStatus(a, oid, s)
  \/ \E a \in Users, oid \in 1..MaxOrders, d \in Users : AssignDelivery(a, oid, d)
  \/ \E d \in Users, oid \in 1..MaxOrders, s \in DeliveryInputs, p \in Proofs :
       DeliveryStatus(d, oid, s, p)
  \/ \E a \in Users, oid \in 1..MaxOrders, s \in AdminStatuses : AdminOrderUpdate(a, oid, s)

Spec == Init /\ [][Next]_vars

\* the wallet ledger: every route that appends to a wallet
LedgerUsers == {"b1", "b2"}
LedgerTypes == {"buyer", "seller", "cashback"}
Plans == {"free_trial", "weekly", "monthly"}

\* every route that moves money, requests served one at a time
LedgerNext ==
  \/ \E u \in LedgerUsers, t \in LedgerTypes, a \in DepositAmounts : Deposit(u, t, a)
  \/ \E u \in LedgerUsers, t \in LedgerTypes, a \in DebitAmounts : Withdraw(u, t, a)
  \/ \E u \in LedgerUsers, f \in LedgerTypes, t \in LedgerTypes, a \in DebitAmounts,
        dup \in BOOLEAN : Transfer(u, f, t, a, dup)
  \/ \E b \in LedgerUsers, items \in ItemLists : CreateOrder(b, items, "wallet")
  \/ \E u \in LedgerUsers, pl \in Plans, m \in PaymentMethods : Subscribe(u, pl, m)
  \/ \E u \in LedgerUsers, m \in PaymentMethods : Renew(u, m)
  \/ \E u \in LedgerUsers, pl \in Plans, m \in PaymentMethods : ChangePlan(u, pl, m)
  \/ \E oid \in 1..MaxOrders, st \in {"delivered", "cancelled"} :
       UpdateStatus(AdminUser, oid, st)

SpecLedger == Init /\ [][LedgerNext]_vars

\* the wallet routes and POST /orders with every payment method
CheckoutNext ==
  \/ \E u \in LedgerUsers, t \in LedgerTypes, a \in DepositAmounts : Deposit(u, t, a)
  \/ \E u \in LedgerUsers, t \in LedgerTypes, a \in DebitAmounts : Withdraw(u, t, a)
  \/ \E u \in LedgerUsers, f \in LedgerTypes, t \in LedgerTypes, a \in DebitAmounts,
        dup \in BOOLEAN : Transfer(u, f, t, a, dup)
  \/ \E b \in LedgerUsers, items \in ItemLists, m \in PaymentMethods : CreateOrder(b, items, m)

SpecCheckout == Init /\ [][CheckoutNext]_vars

\* ------------------------------------------------- interleaved requests
\* The handlers below are POST /orders and POST /wallet/withdraw cut at their
\* awaits, so that the steps of two requests can interleave.

\* document.save() of a wallet changed by addTransaction: the in-memory
\* balance is written and the new transaction is pushed onto the stored log
SaveWallet(ws, doc, tx) ==
  LET i == FindWallet(ws, doc.owner, doc.walletType) IN
  SetWallet(ws, i, [ws[i] EXCEPT !.balance = addTransaction(doc, tx).balance,
                                 !.transactions = Append(@, tx)])

ConcItemLists == { <<[product |-> "p1", quantity |-> 1]>> }

\* POST /orders up to the balance check
OrderCheck(r, b, items) ==
  /\ reqs[r].pc = "idle"
  /\ checkRole(b, {"buyer"})
  /\ UNCHANGED <<wallets, orders, products, subs, users, now>>
  /\ LET v == ValidateItems(products, items, 1)
         orderItems == OrderItems(products, items)
         totalAmount == OrderTotal(orderItems)
         i == FindWallet(wallets, b, "buyer")
     IN
     IF v # "ok"
     THEN /\ resp' = Respond("createOrder", IF v = "product_not_found" THEN 404 ELSE 400,
                             v, b, 0, 0)
          /\ UNCHANGED reqs
     ELSE IF i = 0
     THEN /\ resp' = Respond("createOrder", 404, "wallet_not_found", b, 0, totalAmount)
          /\ UNCHANGED reqs
     ELSE IF ~hasSufficientBalance(wallets[i], totalAmount)
     THEN /\ resp' = Respond("createOrder", 400, "insufficient_balance", b, 0, totalAmount)
          /\ UNCHANGED reqs
     ELSE /\ reqs' = [reqs EXCEPT ![r] = [IdleReq EXCEPT !.pc = "checked", !.who = b,
                                            !.items = orderItems, !.amount = totalAmount]]
          /\ UNCHANGED resp

\* the first order.save()
OrderSave(r) ==
  /\ reqs[r].pc = "checked"
  /\ orders' = Append(orders, NewOrder(reqs[r].who, reqs[r].items, reqs[r].amount, "wallet"))
  /\ reqs' = [reqs EXCEPT ![r].pc = "saved", ![r].oid = Len(orders) + 1]
  /\ UNCHANGED <<wallets, products, subs, resp, users, now>>

\* the second Wallet.findOne
OrderLoadWallet(r) ==
  /\ reqs[r].pc = "saved"
  /\ reqs' = [reqs EXCEPT ![r].pc = "loaded",
                          ![r].doc = wallets[FindWallet(wallets, reqs[r].who, "buyer")]]
  /\ UNCHANGED <<wallets, orders, products, subs, resp, users, now>>

\* buyerWallet.addTransaction(transaction)
OrderPay(r) ==
  /\ reqs[r].pc = "loaded"
  /\ TxCount < MaxTx
  /\ wallets' = SaveWallet(wallets, reqs[r].doc, Tx("payment", reqs[r].amount, reqs[r].oid))
  /\ reqs' = [reqs EXCEPT ![r].pc = "paid"]
  /\ UNCHANGED <<orders, products, subs, resp, users, now>>

\* the second order.save(), the stock reduction and the response
OrderFinish(r) ==
  /\ reqs[r].pc = "paid"
  /\ LET red == ReduceAll(products, reqs[r].items, 1) IN
     /\ orders' = [orders EXCEPT ![reqs[r].oid].paymentStatus = "paid",
                                 ![reqs[r].oid].status = "processing"]
     /\ products' = red.products
     /\ resp' = Respond("createOrder", IF red.ok THEN 200 ELSE 500,
                        IF red.ok THEN "ok" ELSE "server_error",
                        reqs[r].who, reqs[r].oid, reqs[r].amount)
  /\ reqs' = [reqs EXCEPT ![r].pc = "done"]
  /\ UNCHANGED <<wallets, subs, users, now>>

\* POST /wallet/withdraw up to the balance check
WithdrawLoad(r, u, type, amount) ==
  /\ reqs[r].pc = "idle"
  /\ UNCHANGED <<wallets, orders, products, subs, users, now>>
  /\ LET i == FindWallet(wallets, u, type) IN
     IF type \notin WalletTypes
     THEN /\ resp' = Respond("withdraw", 400, "invalid_wallet_type", u, 0, 0)
          /\ UNCHANGED reqs
     ELSE IF i = 0
     THEN /\ resp' = Respond("withdraw", 404, "wallet_not_found", u, 0, 0)
          /\ UNCHANGED reqs
     ELSE IF ~hasSufficientBalance(wallets[i], amount)
     THEN /\ resp' = Respond("withdraw", 400, "insufficient_balance", u, 0, 0)
          /\ UNCHANGED reqs
     ELSE /\ reqs' = [reqs EXCEPT ![r] = [IdleReq EXCEPT !.pc = "wchecked", !.who = u,
                                            !.amount = amount, !.doc = wallets[i]]]
          /\ UNCHANGED resp

\* wallet.addTransaction(transaction) and the response
WithdrawSave(r) ==
  /\ reqs[r].pc = "wchecked"
  /\ TxCount < MaxTx
  /\ wallets' = SaveWallet(wallets, reqs[r].doc, Tx("withdrawal", reqs[r].amount, 0))
  /\ resp' = Respond("withdraw", 200, "ok", reqs[r].who, 0, 0)
  /\ reqs' = [reqs EXCEPT ![r].pc = "done"]
  /\ UNCHANGED <<orders, products, subs, users, now>>

\* POST /wallet/deposit up to Wallet.findOne
DepositLoad(r, u, type, amount) ==
  /\ reqs[r].pc = "idle"
  /\ UNCHANGED <<wallets, orders, products, subs, users, now>>
  /\ LET i == FindWallet(wallets, u, type) IN
     IF type \notin WalletTypes
     THEN /\ resp' = Respond("deposit", 400, "invalid_wallet_type", u, 0, 0)
          /\ UNCHANGED reqs
     ELSE IF i = 0
     THEN /\ resp' = Respond("deposit", 404, "wallet_not_found", u, 0, 0)
          /\ UNCHANGED reqs
     ELSE /\ reqs' = [reqs EXCEPT ![r] = [IdleReq EXCEPT !.pc = "dloaded", !.who = u,
                                            !.amount = amount, !.doc = wallets[i]]]
          /\ UNCHANGED resp

\* wallet.addTransaction(transaction) and the response
DepositSave(r) ==
  /\ reqs[r].pc = "dloaded"
  /\ TxCount < MaxTx
  /\ wallets' = SaveWallet(wallets, reqs[r].doc, Tx("deposit", reqs[r].amount, 0))
  /\ resp' = Respond("deposit", 200, "ok", reqs[r].who, 0, 0)
  /\ reqs' = [reqs EXCEPT ![r].pc = "done"]
  /\ UNCHANGED <<orders, products, subs, users, now>>

ConcNext ==
  \/ \E a \in DepositAmounts : Deposit("b1", "buyer", a)
  \/ \E r \in 1..MaxReq, items \in ConcItemLists : OrderCheck(r, "b1", items)
  \/ \E r \in 1..MaxReq : OrderSave(r)
  \/ \E r \in 1..MaxReq : OrderLoadWallet(r)
  \/ \E r \in 1..MaxReq : OrderPay(r)
  \/ \E r \in 1..MaxReq : OrderFinish(r)
  \/ \E r \in 1..MaxReq, a \in DebitAmounts : WithdrawLoad(r, "b1", "buyer", a)
  \/ \E r \in 1..MaxReq : WithdrawSave(r)

SpecConc == Init /\ [][ConcNext]_vars

\* deposits and withdrawals on one user's wallets, cut at their awaits
DepositUsers == {"b1", "s1"}
DepositTypes == {"buyer", "seller", "cashback"}

DepositsNext ==
  \/ \E r \in 1..MaxReq, u \in DepositUsers, t \in DepositTypes, a \in DepositAmounts :
       DepositLoad(r, u, t, a)
  \/ \E r \in 1..MaxReq : DepositSave(r)
  \/ \E r \in 1..MaxReq, u \in DepositUsers, t \in DepositTypes, a \in DebitAmounts :
       WithdrawLoad(r, u, t, a)
  \/ \E r \in 1..MaxReq : WithdrawSave(r)

SpecDeposits == Init /\ [][DepositsNext]_vars

\* PUT /delivery/accept/:id up to the test of the loaded order
AcceptLoad(r, d, oid) ==
  /\ reqs[r].pc = "idle"
  /\ checkRole(d, {"delivery"})
  /\ UNCHANGED <<wallets, orders, products, subs, users, now>>
  /\ IF oid \notin DOMAIN orders
     THEN resp' = OrderResponse /\ UNCHANGED reqs
     ELSE IF \/ orders[oid].status # "processing"
             \/ orders[oid].deliveryStatus # "pending"
             \/ orders[oid].deliveryAgent # "none"
     THEN resp' = OrderResponse /\ UNCHANGED reqs
     ELSE /\ reqs' = [reqs EXCEPT ![r] = [IdleReq EXCEPT !.pc = "aloaded", !.who = d,
                                            !.oid = oid]]
          /\ UNCHANGED resp

\* User.findById and the availability test
AcceptUser(r) ==
  /\ reqs[r].pc = "aloaded"
  /\ UNCHANGED <<wallets, orders, products, subs, users, now>>
  /\ IF ~users[reqs[r].who].isAvailable
     THEN /\ resp' = OrderResponse
          /\ reqs' = [reqs EXCEPT ![r].pc = "done"]
     ELSE /\ reqs' = [reqs EXCEPT ![r].pc = "achecked"]
          /\ UNCHANGED resp

\* order.assignDeliveryAgent(req.user.id): the save writes the two paths it
\* set; the request answers with the order
AcceptSave(r) ==
  /\ reqs[r].pc = "achecked"
  /\ orders' = [orders EXCEPT ![reqs[r].oid] = assignDeliveryAgent(@, reqs[r].who)]
  /\ resp' = OrderResponse
  /\ reqs' = [reqs EXCEPT ![r].pc = "accepted"]
  /\ UNCHANGED <<wallets, products, subs, users, now>>

\* self-assignment by two agents whose requests interleave
AcceptNext ==
  \/ \E items \in ConcItemLists, m \in PaymentMethods : CreateOrder("b1", items, m)
  \/ \E a \in DepositAmounts : Deposit("b1", "buyer", a)
  \/ \E oid \in 1..MaxOrders : AdminOrderUpdate(AdminUser, oid, "processing")
  \/ AddRole(AdminUser, "s2", "delivery")
  \/ \E d \in {"d1", "s2"}, avail \in BOOLEAN : SetAvailability(d, avail)
  \/ \E r \in 1..MaxReq, d \in {"d1", "s2"}, oid \in 1..MaxOrders : AcceptLoad(r, d, oid)
  \/ \E r \in 1..MaxReq : AcceptUser(r)
  \/ \E r \in 1..MaxReq : AcceptSave(r)

SpecAccept == Init /\ [][AcceptNext]_vars

\* assignment and delivery of an order, with a second agent granted the
\* delivery role by the admin
DeliveryAgents == {"d1", "s2"}

DeliveryNext ==
  \/ \E items \in ConcItemLists : CreateOrder("b1", items, "mobile_money")
  \/ \E oid \in 1..MaxOrders : AdminOrderUpdate(AdminUser, oid, "processing")
  \/ AddRole(AdminUser, "s2", "delivery")
  \/ \E d \in DeliveryAgents, avail \in BOOLEAN : SetAvailability(d, avail)
  \/ \E oid \in 1..MaxOrders, d \in DeliveryAgents : AssignDelivery(AdminUser, oid, d)
  \/ \E oid \in 1..MaxOrders, d \in DeliveryAgents : DeliveryAccept(d, oid)
  \/ \E oid \in 1..MaxOrders, d \in DeliveryAgents, st \in DeliveryUpdates, p \in Proofs :
       DeliveryStatus(d, oid, st, p)

SpecDelivery == Init /\ [][DeliveryNext]_vars

\* registration and role administration
RoleUsers == {"n1"}
RoleInputs == {"buyer", "seller", "delivery"}
RegisterRoles == {{"buyer"}, {"seller"}, {"buyer", "seller"}, {"admin"}}
UpdateRoles == {{"seller"}, {"buyer", "delivery"}}

RolesNext ==
  \/ \E u \in RoleUsers, roles \in RegisterRoles : Register(u, roles)
  \/ \E u \in RoleUsers, role \in RoleInputs : AddRole(AdminUser, u, role)
  \/ \E u \in RoleUsers, role \in RoleInputs : RemoveRole(AdminUser, u, role)
  \/ \E u \in RoleUsers, roles \in UpdateRoles : AdminUserUpdate(AdminUser, u, roles)

SpecRoles == Init /\ [][RolesNext]_vars

\* paid subscriptions of one seller over time
SubUsers == {"b1"}
SubTicks == {29}
SubPlans == {"weekly", "monthly"}

SubsNext ==
  \/ \E d \in SubTicks : Tick(d)
  \/ \E a \in DepositAmounts : Deposit("b1", "seller", a)
  \/ \E u \in SubUsers, pl \in SubPlans, m \in PaymentMethods : Subscribe(u, pl, m)
  \/ \E u \in SubUsers, m \in PaymentMethods : Renew(u, m)
  \/ \E u \in SubUsers, pl \in SubPlans, m \in PaymentMethods : ChangePlan(u, pl, m)

SpecSubs == Init /\ [][SubsNext]_vars

\* the subscription gate of POST /products
GateNext ==
  \/ \E d \in SubTicks : Tick(d)
  \/ \E a \in DepositAmounts : Deposit("b1", "seller", a)
  \/ \E u \in SubUsers, m \in PaymentMethods : Subscribe(u, "weekly", m)
  \/ \E u \in SubUsers : Cancel(u)
  \/ \E u \in SubUsers \cup {"s1"} : CreateProduct(u, 1000, 1)

SpecGate == Init /\ [][GateNext]_vars

\* free trials granted with the seller role, over time
TrialUsers == {"s1", "b2"}
TrialTicks == {2, 60}

TrialNext ==
  \/ \E d \in TrialTicks : Tick(d)
  \/ AddRole(AdminUser, "b2", "seller")
  \/ \E u \in TrialUsers : Cancel(u)
  \/ \E u \in TrialUsers : CreateProduct(u, 1000, 1)

SpecTrial == Init /\ [][TrialNext]_vars

\* cancelling and the subscription requests that may follow it
CancelUsers == {"s1"}
CancelPlans == {"free_trial", "weekly"}

CancelNext ==
  \/ \E d \in SubTicks : Tick(d)
  \/ \E a \in DepositAmounts : Deposit("s1", "seller", a)
  \/ \E u \in CancelUsers, m \in PaymentMethods : Subscribe(u, "weekly", m)
  \/ \E u \in CancelUsers, m \in PaymentMethods : Renew(u, m)
  \/ \E u \in CancelUsers, m \in PaymentMethods : ChangePlan(u, "weekly", m)
  \/ \E u \in CancelUsers : Cancel(u)
  \/ \E u \in CancelUsers : CreateProduct(u, 1000, 1)

SpecCancel == Init /\ [][CancelNext]_vars

\* every subscription request of a seller who holds a free trial, over time
WindowNext ==
  \/ \E d \in SubTicks : Tick(d)
  \/ \E a \in DepositAmounts : Deposit("s1", "seller", a)
  \/ \E u \in CancelUsers, pl \in CancelPlans, m \in PaymentMethods : Subscribe(u, pl, m)
  \/ \E u \in CancelUsers, m \in PaymentMethods : Renew(u, m)
  \/ \E u \in CancelUsers, pl \in CancelPlans, m \in PaymentMethods : ChangePlan(u, pl, m)
  \/ \E u \in CancelUsers : Cancel(u)

SpecWindow == Init /\ [][WindowNext]_vars

\* distributePayment applied to a paid order, as the status routes mean to
Settle(oid) ==
  /\ UNCHANGED <<products, subs, reqs, users, now>>
  /\ oid \in DOMAIN orders
  /\ orders[oid].paymentStatus = "paid"
  /\ LET r == distributePayment(wallets, products, orders[oid], oid)
     IN /\ wallets' = r.wallets
        /\ orders' = [orders EXCEPT ![oid] = r.order]
  /\ resp' = OrderResponse

SettleItemLists ==
  ConcItemLists \cup
    { <<[product |-> "p1", quantity |-> 2], [product |-> "p2", quantity |-> 1]>> }

SettleNext ==
  \/ \E a \in DepositAmounts : Deposit("b1", "buyer", a)
  \/ \E items \in SettleItemLists : CreateOrder("b1", items, "wallet")
  \/ \E oid \in 1..MaxOrders, d \in Users : AssignDelivery(AdminUser, oid, d)
  \/ \E oid \in 1..MaxOrders, st \in AdminStatuses : AdminOrderUpdate(AdminUser, oid, st)
  \/ \E oid \in 1..MaxOrders, d \in Users, st \in {"picked_up", "in_transit"}, p \in Proofs :
       DeliveryStatus(d, oid, st, p)
  \/ \E oid \in 1..MaxOrders : Settle(oid)

SpecSettle == Init /\ [][SettleNext]_vars

\* ================================================================ properties
Balance(ws, owner, type) ==
  LET i == FindWallet(ws, owner, type) IN IF i = 0 THEN 0 ELSE ws[i].balance

OrderSellers(o) == {SellerOf(products, o.items[k]) : k \in 1..Len(o.items)} \ {"none"}

\* the request that moves order oid to delivered through one of the two routes
DeliveredStep(oid) ==
  \/ \E a \in Users : UpdateStatus(a, oid, "delivered")
  \/ \E d \in Users, p \in Proofs :
       orders[oid].deliveryAgent = d /\ DeliveryStatus(d, oid, "delivered", p)

\* the credits of the settlement of order oid
Settled(oid) ==
  LET o == orders[oid] IN
  /\ \A sel \in OrderSellers(o) :
       Balance(wallets', sel, "seller")
         = Balance(wallets, sel, "seller") + SellerTotal(products, o.items, sel, 1)
  /\ o.deliveryAgent # "none" =>
       Balance(wallets', o.deliveryAgent, "delivery")
         = Balance(wallets, o.deliveryAgent, "delivery") + o.deliveryFee

C8_TotalAmount ==
  /\ \A oid \in DOMAIN orders :
       /\ orders[oid].items # <<>>
       /\ \A k \in DOMAIN orders[oid].items :
            orders[oid].items[k].subtotal
              = orders[oid].items[k].price * orders[oid].items[k].quantity
       /\ orders[oid].totalAmount = SumSubtotals(orders[oid].items, 1) + PlatformFee
  /\ (resp.op = "createOrder" /\ resp.oid \in DOMAIN orders)
       => resp.amt = orders[resp.oid].totalAmount

\* C8 witness: a two-line order that a status route has already updated
C8_Witness ==
  \E oid \in DOMAIN orders :
    /\ Len(orders[oid].items) = 2
    /\ orders[oid].status = "delivered"
    /\ orders[oid].totalAmount = 9200

AllowedPaymentChange ==
  {<<"pending", "paid">>, <<"paid", "released">>, <<"paid", "refunded">>}

\* C9: every change of an order's paymentStatus is pending->paid,
\* paid->released or paid->refunded.
C9_PaymentStatusTransitions ==
  [][\A oid \in DOMAIN orders :
       orders'[oid].paymentStatus # orders[oid].paymentStatus
       => <<orders[oid].paymentStatus, orders'[oid].paymentStatus>>
            \in AllowedPaymentChange]_vars

TerminalStatuses == {"delivered", "cancelled", "refunded"}

\* C10: once an order's status is terminal, nothing but its delivery proof
\* changes.
C10_TerminalImmutable ==
  [][\A oid \in DOMAIN orders :
       orders[oid].status \in TerminalStatuses
       => orders'[oid] = [orders[oid] EXCEPT !.deliveryProof = orders'[oid].deliveryProof]]_vars

RECURSIVE SignedSum(_, _)
SignedSum(txs, i) ==
  IF i > Len(txs) THEN 0
  ELSE (IF txs[i].status # "completed" THEN 0
        ELSE IF txs[i].type \in {"deposit", "refund", "commission"} THEN txs[i].amount
        ELSE IF txs[i].type \in {"withdrawal", "payment", "fee"} THEN 0 - txs[i].amount
        ELSE 0)
       + SignedSum(txs, i + 1)

TxTypes(w) == {w.transactions[k].type : k \in DOMAIN w.transactions}

\* C3: with requests served one at a time no debit takes a wallet below zero:
\* every wallet balance is >= 0 in every reachable state.
C3_NoOverdraft ==
  \A i \in DOMAIN wallets : wallets[i].balance >= 0

\* C3 witness: a withdrawal refused on a wallet that holds less than the amount
C3_Witness ==
  /\ resp.op = "withdraw" /\ resp.msg = "insufficient_balance"
  /\ Balance(wallets, resp.who, "buyer") = 2000
  /\ "withdrawal" \in TxTypes(wallets[FindWallet(wallets, resp.who, "buyer")])

\* C4: the balance of every wallet is the sum of its completed credits minus
\* the sum of its completed debits.
C4_BalanceIsLedgerSum ==
  \A i \in DOMAIN wallets : wallets[i].balance = SignedSum(wallets[i].transactions, 1)

\* C4 witness: a wallet whose log holds a credit and two kinds of debit
C4_Witness ==
  \E i \in DOMAIN wallets :
    /\ {"deposit", "payment", "withdrawal"} \subseteq TxTypes(wallets[i])
    /\ wallets[i].balance = 0

\* the total POST /orders asks for the lines of a request
RequestTotal(items) == SumSubtotals(OrderItems(products, items), 1) + PlatformFee

\* C6: a wallet-paid order creation whose buyer wallet is missing or holds
\* less than totalAmount is rejected and changes no order, wallet or product.
C6_RejectedCheckoutNoEffect ==
  [][\A b \in Users, items \in ItemLists :
       (/\ ValidateItems(products, items, 1) = "ok"
        /\ \/ FindWallet(wallets, b, "buyer") = 0
           \/ Balance(wallets, b, "buyer") < RequestTotal(items)
        /\ CreateOrder(b, items, "wallet"))
       => /\ resp'.code \in {400, 404}
          /\ UNCHANGED <<orders, wallets, products>>]_vars

\* C6 witness: a checkout refused on a funded wallet, nothing persisted
C6_Witness ==
  /\ resp.op = "createOrder" /\ resp.msg = "insufficient_balance"
  /\ Balance(wallets, resp.who, "buyer") = 6000
  /\ resp.amt = 9200
  /\ orders = <<>>

RECURSIVE QtyOrdered(_, _, _)
QtyOrdered(items, p, i) ==
  IF i > Len(items) THEN 0
  ELSE (IF items[i].product = p THEN items[i].quantity ELSE 0) + QtyOrdered(items, p, i + 1)

C11_AgentAssignedOnce ==
  [][\A oid \in DOMAIN orders :
       orders[oid].deliveryAgent # "none"
       => orders'[oid].deliveryAgent = orders[oid].deliveryAgent]_vars

DeliveryRank(st) ==
  CASE st = "pending" -> 0
    [] st = "assigned" -> 1
    [] st = "picked_up" -> 2
    [] st = "in_transit" -> 3
    [] OTHER -> 4

\* C19: every change of an order's deliveryStatus moves forward along
\* pending -> assigned -> picked_up -> in_transit -> delivered / failed, and
\* a delivered or failed deliveryStatus never changes again.
C19_DeliveryStatusForward ==
  [][\A oid \in DOMAIN orders :
       orders'[oid].deliveryStatus # orders[oid].deliveryStatus
       => /\ orders[oid].deliveryStatus \notin {"delivered", "failed"}
          /\ DeliveryRank(orders'[oid].deliveryStatus)
               > DeliveryRank(orders[oid].deliveryStatus)]_vars

WalletCount(ws, u, type) ==
  Cardinality({i \in DOMAIN ws : ws[i].owner = u /\ ws[i].walletType = type})

HoldsRole(us, u, role) == us[u].registered /\ role \in us[u].roles

\* C12: whenever a step gives a user a role that has a wallet type, exactly
\* one wallet of that (owner, type) pair exists afterwards, and no step leaves
\* two wallets of one pair.
C12_WalletPerRole ==
  [][\A u \in Users, role \in WalletTypes :
       /\ (HoldsRole(users', u, role) /\ ~HoldsRole(users, u, role))
            => WalletCount(wallets', u, role) = 1
       /\ WalletCount(wallets', u, role) <= 1]_vars

\* C13: a successful transfer of a between two wallets of different types of
\* one owner takes a from the source and adds a to the destination, so their
\* sum is unchanged; a transfer with equal types, an invalid type, a missing
\* wallet or a source balance below a changes no wallet.
C13_TransferConserves ==
  [][\A u \in LedgerUsers, f \in LedgerTypes, t \in LedgerTypes, a \in DebitAmounts,
        dup \in BOOLEAN :
       (resp'.op = "transfer" /\ resp'.who = u /\ Transfer(u, f, t, a, dup))
       => /\ resp'.code = 200 =>
               /\ f # t
               /\ Balance(wallets, u, f) >= a
               /\ Balance(wallets', u, f) = Balance(wallets, u, f) - a
               /\ Balance(wallets', u, t) = Balance(wallets, u, t) + a
               /\ Balance(wallets', u, f) + Balance(wallets', u, t)
                    = Balance(wallets, u, f) + Balance(wallets, u, t)
          /\ (\/ f = t
              \/ f \notin WalletTypes \/ t \notin WalletTypes
              \/ FindWallet(wallets, u, f) = 0 \/ FindWallet(wallets, u, t) = 0
              \/ Balance(wallets, u, f) < a)
             => (wallets' = wallets /\ resp'.code \in {400, 404})]_vars

\* C13 witness: a transfer of 4000 out of a buyer wallet that held 6000
C13_Witness ==
  /\ resp.op = "transfer" /\ resp.code = 200
  /\ Balance(wallets, resp.who, "buyer") = 2000
  /\ Balance(wallets, resp.who, "seller") = 4000

\* C14: POST /products creates a product only if the seller's Subscription
\* exists with status active and now <= endDate, or the user's sellerInfo is
\* on trial with now <= its end date; otherwise it answers 403 and creates
\* nothing.
C14_ProductGate ==
  [][\A u \in Users :
       (resp'.op = "createProduct" /\ resp'.who = u /\ CreateProduct(u, 1000, 1))
       => LET subscribed == /\ subs[u].plan # "none"
                            /\ subs[u].status = "active"
                            /\ now <= subs[u].endDate
              onTrial == /\ users[u].sellerStatus = "trial"
                         /\ users[u].sellerEnd >= 0
                         /\ now <= users[u].sellerEnd
          IN IF subscribed \/ onTrial
             THEN resp'.code = 200 /\ DOMAIN products' # DOMAIN products
             ELSE resp'.code = 403 /\ products' = products]_vars

\* C14 witness: a product created on day 29 by a seller whose weekly
\* subscription runs until day 36
C14_Witness ==
  /\ resp.op = "createProduct" /\ resp.code = 200
  /\ "p3" \in DOMAIN products
  /\ products["p3"].seller = "b1"
  /\ subs["b1"].plan = "weekly" /\ subs["b1"].status = "active"
  /\ now = 29 /\ subs["b1"].endDate = 36

\* C15: every step of POST /auth/register or PUT /users/add-role/:id that
\* gives a user the seller role leaves that user with a Subscription, a
\* free trial (active, price 0) if none existed before.
C15_SellerGetsTrial ==
  [][\A u \in Users :
       (/\ resp'.op \in {"register", "addRole"}
        /\ HoldsRole(users', u, "seller") /\ ~HoldsRole(users, u, "seller"))
       => /\ subs'[u] # NoSub
          /\ subs[u] = NoSub =>
               /\ subs'[u].plan = "free_trial"
               /\ subs'[u].status = "active"
               /\ subs'[u].price = 0]_vars

\* C16: a free-trial subscription created at T (its startDate) has price 0
\* and endDate = T + 2 months, and while its status stays active isActive()
\* holds exactly at the times t <= T + 2 months.
C16_TrialWindow ==
  \A u \in Users :
    (subs[u].plan = "free_trial" /\ subs[u].renewalHistory = <<>>)
    => /\ subs[u].price = 0
       /\ subs[u].endDate = subs[u].startDate + 2 * MonthDays
       /\ subs[u].status = "active"
            => (isActive(subs[u]) <=> now <= subs[u].startDate + 2 * MonthDays)

\* C16 witness: a free trial granted after day 0 whose two months are over
C16_Witness ==
  \E u \in Users :
    /\ subs[u].plan = "free_trial" /\ subs[u].status = "active"
    /\ subs[u].startDate > 0
    /\ now > subs[u].startDate + 2 * MonthDays
    /\ ~isActive(subs[u])

C20_AdminFeeCredited ==
  [][\A oid \in 1..MaxOrders :
       Settle(oid)
       => Balance(wallets', AdminUser, "admin")
            = Balance(wallets, AdminUser, "admin") + 200]_vars

\* C21: a successful wallet-paid change-plan appends one renewalHistory entry
\* that holds the plan, startDate, endDate and price of the cycle that was
\* current before the call.
C21_ChangePlanArchivesPrevious ==
  [][\A u \in Users, p \in PaidPlans :
       (/\ resp'.op = "changePlan" /\ resp'.who = u /\ resp'.code = 200
        /\ ChangePlan(u, p, "wallet"))
       => LET old == subs[u]
              new == subs'[u]
              n == Len(old.renewalHistory)
          IN /\ Len(new.renewalHistory) = n + 1
             /\ SubSeq(new.renewalHistory, 1, n) = old.renewalHistory
             /\ new.renewalHistory[n + 1].plan = old.plan
             /\ new.renewalHistory[n + 1].startDate = old.startDate
             /\ new.renewalHistory[n + 1].endDate = old.endDate
             /\ new.renewalHistory[n + 1].price = old.price]_vars

\* C22: a POST /subscription paid by wallet stores a paid plan with status
\* active and a recomputed endDate only when the same request debited the
\* plan's price from the seller wallet; a request rejected for insufficient
\* balance or a missing seller wallet leaves the stored Subscription unchanged.
C22_SubscribePaidOrUnchanged ==
  [][\A u \in Users, p \in PaidPlans :
       (/\ resp'.op = "subscribe" /\ resp'.who = u
        /\ Subscribe(u, p, "wallet"))
       => /\ resp'.code \in {400, 404} => subs'[u] = subs[u]
          /\ (subs'[u] # subs[u] /\ subs'[u].status = "active")
               => Balance(wallets', u, "seller")
                    = Balance(wallets, u, "seller") - PlanPrice(p)]_vars

OrderTxCount(w, oid, types) ==
  Cardinality({k \in DOMAIN w.transactions :
                 w.transactions[k].relatedOrder = oid /\ w.transactions[k].type \in types})

\* C24: whatever admin status updates and delivery-status updates an order
\* receives, no wallet holds more than one settlement credit of a kind for it
\* nor more than one refund, and no order has both a settlement and a refund.
C24_SettleOrRefundOnce ==
  \A oid \in DOMAIN orders :
    /\ \A i \in DOMAIN wallets :
         /\ OrderTxCount(wallets[i], oid, {"deposit"}) <= 1
         /\ OrderTxCount(wallets[i], oid, {"commission"}) <= 1
         /\ OrderTxCount(wallets[i], oid, {"fee"}) <= 1
         /\ OrderTxCount(wallets[i], oid, {"refund"}) <= 1
    /\ ~ /\ \E i \in DOMAIN wallets :
              OrderTxCount(wallets[i], oid, {"deposit", "commission", "fee"}) > 0
         /\ \E i \in DOMAIN wallets : OrderTxCount(wallets[i], oid, {"refund"}) > 0

\* C24 witness: a wallet-paid order delivered by its agent and then cancelled
\* by the admin through PUT /orders/:id/status
C24_Witness ==
  \E oid \in DOMAIN orders :
    /\ orders[oid].paymentMethod = "wallet"
    /\ orders[oid].deliveryStatus = "delivered"
    /\ orders[oid].status = "cancelled"
    /\ orders[oid].paymentStatus = "refunded"
    /\ OrderTxCount(wallets[FindWallet(wallets, orders[oid].buyer, "buyer")],
                    oid, {"payment"}) = 1

RECURSIVE TotalBalance(_, _)
TotalBalance(ws, i) ==
  IF i > Len(ws) THEN 0 ELSE ws[i].balance + TotalBalance(ws, i + 1)

\* C25: when distributePayment runs on an order with an assigned agent whose
\* seller, delivery and admin wallets all exist, the balances of all wallets
\* together grow by the order's totalAmount.
C25_SettlementConserves ==
  [][\A oid \in 1..MaxOrders :
       (/\ oid \in DOMAIN orders
        /\ orders[oid].deliveryAgent # "none"
        /\ FindWallet(wallets, orders[oid].deliveryAgent, "delivery") # 0
        /\ \A sel \in OrderSellers(orders[oid]) : FindWallet(wallets, sel, "seller") # 0
        /\ AdminUser # "none" /\ FindWallet(wallets, AdminUser, "admin") # 0
        /\ Settle(oid))
       => TotalBalance(wallets', 1) - TotalBalance(wallets, 1)
            = orders[oid].totalAmount]_vars

\* C26: when two requests that call addTransaction on the same wallet
\* interleave, the stored balance still equals the signed sum of the
\* transactions in the wallet's log.
C26_InterleavedLedgerSum ==
  \A u \in Users, t \in WalletTypes :
    FindWallet(wallets, u, t) # 0
    => Balance(wallets, u, t)
         = SignedSum(wallets[FindWallet(wallets, u, t)].transactions, 1)

\* the agents whose PUT /delivery/accept/:id answered with order oid
Accepted(oid) ==
  {reqs[r].who : r \in {q \in DOMAIN reqs : reqs[q].pc = "accepted" /\ reqs[q].oid = oid}}

\* C27: for any order at most one accept request returns success, also when
\* two agents' requests interleave, and the stored deliveryAgent is the agent
\* that received the success response.
C27_SingleAccept ==
  \A oid \in DOMAIN orders :
    /\ Cardinality(Accepted(oid)) <= 1
    /\ \A d \in Accepted(oid) : orders[oid].deliveryAgent = d

TrialStart(sub) ==
  IF sub.renewalHistory = <<>> THEN sub.startDate ELSE sub.renewalHistory[1].startDate

\* C29: whatever subscription requests a seller sends, a Subscription on the
\* free_trial plan, and a sellerInfo on trial, never ends later than two
\* months after the time the free trial was first created.
C29_TrialNotExtended ==
  \A u \in Users :
    /\ subs[u].plan = "free_trial"
         => subs[u].endDate <= TrialStart(subs[u]) + 2 * MonthDays
    /\ (subs[u] # NoSub /\ users[u].sellerStatus = "trial" /\ users[u].sellerEnd # NoDate)
         => users[u].sellerEnd <= TrialStart(subs[u]) + 2 * MonthDays

\* C29 witness: a free trial cancelled, renewed on day 29 and asked for again
\* by POST /subscription on day 58, still ending on day 60
C29_Witness ==
  /\ resp.op = "subscribe" /\ resp.who = "s1" /\ resp.code = 500
  /\ now = 58
  /\ subs["s1"].plan = "free_trial" /\ subs["s1"].status = "active"
  /\ subs["s1"].startDate = 29
  /\ Len(subs["s1"].renewalHistory) = 1
  /\ subs["s1"].renewalHistory[1].status = "cancelled"
  /\ subs["s1"].endDate = 60

\* C30: a user comes to hold the admin role only through a request
\* authenticated as an existing admin (PUT /users/add-role/:id or
\* PUT /admin/users/:id), never through POST /auth/register.
C30_AdminOnlyByAdmin ==
  [][\A u \in Users :
       (HoldsRole(users', u, "admin") /\ ~HoldsRole(users, u, "admin"))
       => /\ resp'.op \in {"addRole", "adminUserUpdate"}
          /\ \E a \in Users \ {u} : HoldsRole(users, a, "admin")]_vars

====
